---- MODULE Spec2Model ----
(***************************************************************************)
(* Model of neuralprophet/classification.py: the class Classification_NP,  *)
(* a binary classifier layered over the NeuralProphet forecaster.          *)
(*                                                                         *)
(* Conventions.                                                            *)
(*  - A Python str is a sequence of one-character strings, so that         *)
(*    str.lower() is computed character by character.                      *)
(*  - A Python value handed to collect_metrics is a tagged record          *)
(*    [type, val].                                                         *)
(*  - An optional value is <<>> (None) or <<v>>.                           *)
(*  - Floating point numbers of a frame are fixed-point integers counting  *)
(*    units of 1/Scale; a cell of a frame is <<v>>, or <<>> for NaN.       *)
(*  - The frames modelled are the multi-series frames that already carry   *)
(*    an ID column, for which df_utils.prep_or_copy_df and                 *)
(*    df_utils.return_df_in_original_format leave rows and columns alone.  *)
(***************************************************************************)
EXTENDS Integers, Sequences, FiniteSets, TLC

(***************************************************************************)
(* Bounds of the model.                                                    *)
(***************************************************************************)
MaxList == 2        \* longest list handed to collect_metrics
MaxLag == 1         \* largest n_lags of the model or of a covariate
MaxForecasts == 2   \* largest n_forecasts
MaxRows == 2        \* most rows in a frame returned by the forecaster
HalfUnit == 2       \* the fixed-point value of 0.5

Scale == 2 * HalfUnit   \* the fixed-point value of 1.0

None == <<>>
Some(v) == <<v>>

(***************************************************************************)
(* Python strings and str.lower().                                         *)
(***************************************************************************)
UPPER == <<"A","B","C","D","E","F","G","H","I","J","K","L","M",
           "N","O","P","Q","R","S","T","U","V","W","X","Y","Z">>
LOWER == <<"a","b","c","d","e","f","g","h","i","j","k","l","m",
           "n","o","p","q","r","s","t","u","v","w","x","y","z">>

LowerChar(c) ==
    IF \E k \in 1..Len(UPPER) : UPPER[k] = c
    THEN LOWER[CHOOSE k \in 1..Len(UPPER) : UPPER[k] = c]
    ELSE c

lower(s) == [k \in 1..Len(s) |-> LowerChar(s[k])]

s_acc == <<"a","c","c">>
s_bal_acc == <<"b","a","l","_","a","c","c">>
s_f1 == <<"f","1">>
s_Loss == <<"L","o","s","s">>
s_bce == <<"b","c","e">>
s_bceloss == <<"b","c","e","l","o","s","s">>

(***************************************************************************)
(* Python values as they reach collect_metrics.                            *)
(***************************************************************************)
PyNone == [type |-> "NoneType", val |-> <<>>]
PyBool(b) == [type |-> "bool", val |-> b]
PyStr(s) == [type |-> "str", val |-> s]
PyInt(n) == [type |-> "int", val |-> n]
PyList(l) == [type |-> "list", val |-> l]

isinstance(v, t) == v.type = t

(***************************************************************************)
(* The metric objects of neuralprophet.metrics, identified by their class  *)
(* and constructor argument.                                               *)
(***************************************************************************)
Metric(cls, arg) == [cls |-> cls, arg |-> arg]
LossMetric(loss_func) == Metric("LossMetric", loss_func)
ValueMetric(name) == Metric("ValueMetric", name)

METRICS_keys == {s_acc, s_bal_acc, s_f1}

METRICS ==
    [k \in METRICS_keys |->
        CASE k = s_acc -> "Accuracy"
          [] k = s_bal_acc -> "Balanced_Accuracy"
          [] k = s_f1 -> "F1Score"]

(***************************************************************************)
(* __init__, lines 73-85: collect_metrics is resolved to a list, left as   *)
(* False, or rejected.  exc is "" when no exception is raised.             *)
(***************************************************************************)
Supported_NoLower(s) == s \in METRICS_keys

\* lines 78 and 82: the test of one name
Supported(s) == lower(s) \in METRICS_keys

Resolved(v) == [exc |-> "", value |-> v]
Raise(e) == [exc |-> e, value |-> PyNone]

ResolveCollectMetrics(collect_metrics) ==
    IF collect_metrics = PyNone THEN Resolved(PyList(<<>>))
    ELSE IF collect_metrics = PyBool(TRUE)
    THEN Resolved(PyList(<<PyStr(s_acc), PyStr(s_bal_acc), PyStr(s_f1)>>))
    ELSE IF isinstance(collect_metrics, "str")
    THEN IF ~ Supported(collect_metrics.val)
         THEN Raise("ValueError")
         ELSE Resolved(PyList(<<collect_metrics>>))
    ELSE IF isinstance(collect_metrics, "list")
    THEN LET l == collect_metrics.val IN
         \* the list comprehension calls m.lower() on every entry before
         \* all() looks at the results
         IF \E k \in 1..Len(l) : ~ isinstance(l[k], "str")
         THEN Raise("AttributeError")
         ELSE IF ~ \A k \in 1..Len(l) : Supported(l[k].val)
         THEN Raise("ValueError")
         ELSE Resolved(collect_metrics)
    ELSE IF collect_metrics # PyBool(FALSE) THEN Raise("ValueError")
    ELSE Resolved(collect_metrics)

(***************************************************************************)
(* __init__, lines 87-93: the metrics collection.                          *)
(***************************************************************************)
MetricsCollection(metrics, value_metrics) ==
    [metrics |-> metrics, value_metrics |-> value_metrics]

BuildMetrics_OnlyIfNonEmpty(collect_metrics, loss_func) ==
    IF isinstance(collect_metrics, "list") /\ Len(collect_metrics.val) > 0
    THEN LET l == collect_metrics.val IN
         Some(MetricsCollection(
                <<LossMetric(loss_func)>>
                \o [k \in 1..Len(l) |-> Metric(METRICS[lower(l[k].val)], <<>>)],
                <<ValueMetric(s_Loss)>>))
    ELSE None

BuildMetrics(collect_metrics, loss_func) ==
    IF isinstance(collect_metrics, "list")
    THEN LET l == collect_metrics.val IN
         Some(MetricsCollection(
                <<LossMetric(loss_func)>>
                \o [k \in 1..Len(l) |-> Metric(METRICS[lower(l[k].val)], <<>>)],
                <<ValueMetric(s_Loss)>>))
    ELSE None

(***************************************************************************)
(* fit, lines 103-117.                                                     *)
(***************************************************************************)
SetMax(S) == CHOOSE m \in S : \A x \in S : x <= m

\* df_utils.get_max_num_lags: the largest lag over the model's own n_lags
\* and the n_lags of every configured covariate.
get_max_num_lags(config_covar, n_lags) ==
    IF config_covar # None
    THEN LET covar == config_covar[1] IN
         SetMax({n_lags} \cup {covar[r] : r \in DOMAIN covar})
    ELSE n_lags

FitWarnings_OffByOne(n_lags, max_lags) ==
    (IF n_lags >= 0 THEN <<"warning: auto-regression">> ELSE <<>>)
    \o (IF max_lags = 0 THEN <<"warning: lagged regressor">> ELSE <<>>)

\* lines 104-109
FitWarnings(n_lags, max_lags) ==
    (IF n_lags > 0 THEN <<"warning: auto-regression">> ELSE <<>>)
    \o (IF max_lags = 0 THEN <<"warning: lagged regressor">> ELSE <<>>)

IsBCE_NoLower(loss_func_name) == loss_func_name \in {s_bce, s_bceloss}

\* line 110
IsBCE(loss_func_name) == lower(loss_func_name) \in {s_bce, s_bceloss}

(***************************************************************************)
(* Data frames: a set of columns and a sequence of rows, each row a        *)
(* function from the columns to cells.  A column is <<name, step>>, with   *)
(* step 0 for the columns that are not per horizon step.                   *)
(***************************************************************************)
NaN == <<>>
Cell(v) == <<v>>

col_ds == <<"ds", 0>>
col_y == <<"y", 0>>
col_ID == <<"ID", 0>>
col_yhat(i) == <<"yhat", i>>
col_yhat_raw(i) == <<"yhat_raw", i>>
col_residual(i) == <<"residual", i>>

DataFrame(columns, rows) == [columns |-> columns, rows |-> rows]
EmptyFrame == DataFrame({}, <<>>)

\* DataFrame.rename(columns={old: new})
rename(df, old, new) ==
    IF old \notin df.columns THEN df
    ELSE LET cols == (df.columns \ {old}) \cup {new} IN
         DataFrame(cols,
                   [k \in 1..Len(df.rows) |->
                      [c \in cols |-> IF c = new THEN df.rows[k][old]
                                      ELSE df.rows[k][c]]])

\* df[c] = values
setcol(df, c, values) ==
    LET cols == df.columns \cup {c} IN
    DataFrame(cols,
              [k \in 1..Len(df.rows) |->
                 [d \in cols |-> IF d = c THEN values[k] ELSE df.rows[k][d]]])

\* pd.concat((a, b), ignore_index=True): the union of the columns, the rows
\* of a then the rows of b, NaN where a frame lacks a column
concat(a, b) ==
    LET cols == a.columns \cup b.columns
        fill(df) == [k \in 1..Len(df.rows) |->
                       [c \in cols |-> IF c \in df.columns THEN df.rows[k][c]
                                       ELSE NaN]]
    IN DataFrame(cols, fill(a) \o fill(b))

\* The series identifiers, listed in ascending order.
IDS == <<"A", "B">>

RECURSIVE FirstSeen(_)
FirstSeen(s) ==
    IF s = <<>> THEN <<>>
    ELSE LET init == FirstSeen(SubSeq(s, 1, Len(s) - 1))
             last == s[Len(s)]
         IN IF \E k \in 1..Len(init) : init[k] = last THEN init
            ELSE Append(init, last)

IdsOf(rows) == [k \in 1..Len(rows) |-> rows[k][col_ID][1]]

GroupKeys_Unsorted(df) == FirstSeen(IdsOf(df.rows))

\* the keys of df.groupby("ID"): groupby sorts the group keys
GroupKeys(df) ==
    LET present(id) == \E k \in 1..Len(df.rows) : df.rows[k][col_ID] = Cell(id)
    IN SelectSeq(IDS, present)

\* the group of one key: its rows in their original order
Group(df, id) ==
    LET member(r) == r[col_ID] = Cell(id)
    IN DataFrame(df.columns, SelectSeq(df.rows, member))

(***************************************************************************)
(* numpy's round of a float64: to the nearest integer, ties to the even    *)
(* one.  x counts units of 1/Scale; the result is an integer.              *)
(***************************************************************************)
RoundHalfUp(x) == (2 * x + Scale) \div (2 * Scale)

RoundHalfEven(x) ==
    LET q == x \div Scale
        r == x % Scale
    IN IF 2 * r < Scale THEN q
       ELSE IF 2 * r > Scale THEN q + 1
       ELSE IF q % 2 = 0 THEN q ELSE q + 1

round(cell) == IF cell = NaN THEN NaN ELSE Cell(Scale * RoundHalfEven(cell[1]))

minus(a, b) == IF a = NaN \/ b = NaN THEN NaN ELSE Cell(a[1] - b[1])

(***************************************************************************)
(* predict, lines 131-140.                                                 *)
(***************************************************************************)
\* lines 134-139: one pass of the inner loop over the frame of a series
HorizonStep(df_i, df_name, i) ==
    LET renamed == rename(df_i, col_yhat(i), col_yhat_raw(i))
        n == Len(renamed.rows)
        yhat == [k \in 1..n |-> renamed.rows[k][col_yhat_raw(i)]]
        rounded == setcol(renamed, col_yhat(i), [k \in 1..n |-> round(yhat[k])])
        resid == setcol(rounded, col_residual(i),
                        [k \in 1..n |-> minus(rounded.rows[k][col_yhat_raw(i)],
                                              rounded.rows[k][col_y])])
    IN setcol(resid, col_ID, [k \in 1..n |-> Cell(df_name)])

\* lines 133-140: the inner loop, steps i..n_forecasts; the frame of the
\* series is appended to df_pred at the end of every pass
RECURSIVE HorizonLoop(_, _, _, _, _)
HorizonLoop(df_pred, df_i, df_name, i, n_forecasts) ==
    IF i > n_forecasts THEN df_pred
    ELSE LET next == HorizonStep(df_i, df_name, i) IN
         HorizonLoop(concat(df_pred, next), next, df_name, i + 1, n_forecasts)

\* lines 132-140: the outer loop over the groups g..Len(keys)
RECURSIVE GroupLoop(_, _, _, _, _)
GroupLoop(df_pred, df, keys, g, n_forecasts) ==
    IF g > Len(keys) THEN df_pred
    ELSE GroupLoop(HorizonLoop(df_pred, Group(df, keys[g]), keys[g], 1, n_forecasts),
                   df, keys, g + 1, n_forecasts)

\* lines 131-141, applied to the frame returned by the forecaster
PostProcess(df, n_forecasts) ==
    GroupLoop(EmptyFrame, df, GroupKeys(df), 1, n_forecasts)

(***************************************************************************)
(* The state: the arguments of the constructor and the configuration the   *)
(* parent constructor derives from them, the attributes this class sets,   *)
(* and the record of the most recent call of fit or predict.               *)
(***************************************************************************)
VARIABLES
    loss_func,            \* the loss_func argument of __init__
    forecaster_locals,    \* the parent's resolved keyword arguments
    n_lags,               \* the parent's auto-regression order
    n_forecasts,          \* the parent's number of horizon steps
    config_covar,         \* None, or covariate name -> its n_lags
    forecast,             \* the frame the forecaster's predict returns
    state,                \* "new", "constructed" or "failed"
    init_exc,             \* the exception __init__ raised, "" for none
    classification_task,
    name,
    config_train,
    metrics,
    call                  \* the most recent call of fit or predict

vars == <<loss_func, forecaster_locals, n_lags, n_forecasts, config_covar,
          forecast,
          state, init_exc, classification_task, name, config_train, metrics,
          call>>

config == <<loss_func, n_lags, n_forecasts, config_covar, forecast>>
attributes == <<forecaster_locals, state, init_exc, classification_task, name,
                config_train, metrics>>

(***************************************************************************)
(* The inputs.                                                             *)
(***************************************************************************)
s_ACC == <<"A","C","C">>
s_Bal_Acc == <<"B","a","l","_","A","c","c">>
s_F1 == <<"F","1">>
s_xyz == <<"x","y","z">>
s_BCE == <<"B","C","E">>
s_BCELoss == <<"B","C","E","L","o","s","s">>
s_MSELoss == <<"M","S","E","L","o","s","s">>
s_Huber == <<"H","u","b","e","r">>

MetricNames == {s_acc, s_ACC, s_bal_acc, s_Bal_Acc, s_f1, s_F1, s_xyz}
ListEntries == {PyStr(s) : s \in MetricNames} \cup {PyInt(42)}
Lists == UNION {[1..n -> ListEntries] : n \in 0..MaxList}

CollectMetricsValues ==
    {PyNone, PyBool(TRUE), PyBool(FALSE), PyInt(42), PyInt(1)}
    \cup {PyStr(s) : s \in MetricNames}
    \cup {PyList(l) : l \in Lists}

LossFuncs == {s_bce, s_BCE, s_bceloss, s_BCELoss, s_MSELoss, s_Huber}

CovarNames == {"r1", "r2"}
Covars == {None} \cup
          {Some(f) : f \in UNION {[S -> 0..MaxLag] : S \in SUBSET CovarNames}}

RawValues == {1 - Scale, 1, HalfUnit, 3 * HalfUnit}
Labels == {0, Scale}

ForecastColumns(n) == {col_ds, col_y, col_ID} \cup {col_yhat(i) : i \in 1..n}

\* The frames the forecaster's predict can return: row k carries ds = k, a
\* series identifier, a label and one raw forecast per horizon step.
Forecasts(n) ==
    UNION {
      { DataFrame(ForecastColumns(n),
                  [k \in 1..rows |->
                     [c \in ForecastColumns(n) |->
                        IF c = col_ds THEN Cell(k)
                        ELSE IF c = col_ID THEN Cell(id[k])
                        ELSE IF c = col_y THEN Cell(y[k])
                        ELSE Cell(yhat[k][c[2]])]])
        : id \in [1..rows -> {IDS[j] : j \in 1..Len(IDS)}],
          y \in [1..rows -> Labels],
          yhat \in [1..rows -> [1..n -> RawValues]] }
      : rows \in 1..MaxRows }

\* the frames of one row, and one of them
OneRowForecasts(n) == {f \in Forecasts(n) : Len(f.rows) = 1}
SampleForecasts(n) ==
    {f \in OneRowForecasts(n) :
        /\ f.rows[1][col_ID] = Cell(IDS[1])
        /\ f.rows[1][col_y] = Cell(0)
        /\ \A i \in 1..n : f.rows[1][col_yhat(i)] = Cell(1)}

DataFrames == {"df_1", "df_2"}
Freqs == {"auto", "D"}
ValidationFrames == {"None", "df_val"}
ProgressModes == {"bar", "plot"}
Histories == {"metrics_1", "metrics_2"}

(***************************************************************************)
(* __init__, lines 55-93.                                                  *)
(***************************************************************************)
\* configure.from_kwargs(configure.Train, kwargs): the training
\* configuration carries the loss function of kwargs and its name
Train(kwargs) ==
    [loss_func |-> kwargs.loss_func, loss_func_name |-> kwargs.loss_func]

Construct ==
    /\ state = "new"
    /\ LET kwargs == [forecaster_locals EXCEPT !.loss_func = loss_func]
           resolved == ResolveCollectMetrics(kwargs.collect_metrics)
       IN /\ forecaster_locals' = kwargs
          /\ classification_task' = Some(TRUE)
          /\ name' = Some("NeuralProphetBinaryClassifier")
          /\ config_train' = Some(Train(kwargs))
          /\ init_exc' = resolved.exc
          /\ IF resolved.exc # ""
             THEN state' = "failed" /\ UNCHANGED metrics
             ELSE /\ state' = "constructed"
                  /\ metrics' = BuildMetrics(resolved.value, Train(kwargs).loss_func)
    /\ UNCHANGED <<config, call>>

(***************************************************************************)
(* fit, lines 95-124.  super_result is what the forecaster's fit returns.  *)
(***************************************************************************)
FitCall(df, freq, validation_df, progress, minimal, super_result) ==
    LET max_lags == get_max_num_lags(config_covar, n_lags)
        warnings == FitWarnings(n_lags, max_lags)
        args == [df |-> df, freq |-> freq, validation_df |-> validation_df,
                 progress |-> progress, minimal |-> minimal]
    IN IF IsBCE(config_train[1].loss_func_name)
       THEN [op |-> "fit", args |-> args,
             log |-> warnings \o <<"info: bce", "super().fit">>,
             exc |-> "",
             super_fit |-> <<[args |-> args, returned |-> super_result]>>,
             result |-> Some(super_result)]
       ELSE [op |-> "fit", args |-> args,
             log |-> warnings,
             exc |-> "NotImplementedError", super_fit |-> <<>>, result |-> None]

fit_ResetsOnError(df, freq, validation_df, progress, minimal, super_result) ==
    /\ state = "constructed"
    /\ call' = FitCall(df, freq, validation_df, progress, minimal, super_result)
    /\ metrics' = IF call'.exc # "" THEN None ELSE metrics
    /\ UNCHANGED <<config, forecaster_locals, state, init_exc,
                   classification_task, name, config_train>>

fit(df, freq, validation_df, progress, minimal, super_result) ==
    /\ state = "constructed"
    /\ call' = FitCall(df, freq, validation_df, progress, minimal, super_result)
    /\ UNCHANGED <<config, attributes>>

Fit ==
    \E df \in DataFrames, freq \in Freqs, validation_df \in ValidationFrames,
       progress \in ProgressModes, minimal \in BOOLEAN, super_result \in Histories :
        fit(df, freq, validation_df, progress, minimal, super_result)

(***************************************************************************)
(* predict, lines 126-142.  The forecaster is stateless between calls: for *)
(* the frame handed to predict its own predict returns forecast.           *)
(***************************************************************************)
Predict ==
    /\ state = "constructed"
    /\ call' = [op |-> "predict", result |-> PostProcess(forecast, n_forecasts)]
    /\ UNCHANGED <<config, attributes>>

(***************************************************************************)
(* Specifications.  InitWith draws the constructor's arguments, the        *)
(* forecaster's configuration and its forecast from the given sets; FC     *)
(* gives the forecasts for each n_forecasts.                               *)
(***************************************************************************)
InitWith(CM, LF, NL, CC, NF, FC) ==
    /\ loss_func \in LF
    /\ forecaster_locals \in {[collect_metrics |-> cm, loss_func |-> s_Huber] : cm \in CM}
    /\ n_lags \in NL
    /\ n_forecasts \in NF
    /\ config_covar \in CC
    /\ forecast \in FC[n_forecasts]
    /\ state = "new"
    /\ init_exc = ""
    /\ classification_task = None
    /\ name = None
    /\ config_train = None
    /\ metrics = None
    /\ call = [op |-> "none"]

\* construction over every collect_metrics value
InitConstruct == InitWith(CollectMetricsValues, LossFuncs, {0}, {None}, {1},
                          [n \in {1} |-> SampleForecasts(n)])
SpecConstruct == InitConstruct /\ [][Construct]_vars

\* fit over every loss function and lag configuration
InitFit == InitWith({PyNone}, LossFuncs, 0..MaxLag, Covars, {1},
                    [n \in {1} |-> SampleForecasts(n)])
NextFit == Construct \/ Fit
SpecFit == InitFit /\ [][NextFit]_vars

\* predict over every forecast frame
InitPredict == InitWith({PyNone}, {s_bce}, {0}, {None}, 1..MaxForecasts,
                        [n \in 1..MaxForecasts |-> Forecasts(n)])
NextPredict == Construct \/ Predict
SpecPredict == InitPredict /\ [][NextPredict]_vars

\* the life of an instance: construction, then fit and predict in any order
Init == InitWith({PyNone, PyBool(FALSE), PyStr(s_F1), PyStr(s_xyz)},
                 {s_bce, s_MSELoss}, 0..MaxLag, {None}, {1},
                 [n \in {1} |-> OneRowForecasts(n)])
Next == Construct \/ Fit \/ Predict
Spec == Init /\ [][Next]_vars

(***************************************************************************)
(* Vocabulary of the properties.                                           *)
(***************************************************************************)
collect_metrics_arg == forecaster_locals.collect_metrics

\* collect_metrics values the class documents as accepted
CaseVariants(k) ==
    CASE k = s_acc -> {s_acc, s_ACC}
      [] k = s_bal_acc -> {s_bal_acc, s_Bal_Acc}
      [] k = s_f1 -> {s_f1, s_F1}

IsSupportedName(v) ==
    v.type = "str" /\ \E k \in METRICS_keys : v.val \in CaseVariants(k)

ExpectedClass(s) ==
    CASE s \in CaseVariants(s_acc) -> "Accuracy"
      [] s \in CaseVariants(s_bal_acc) -> "Balanced_Accuracy"
      [] s \in CaseVariants(s_f1) -> "F1Score"

IsListOfSupportedNames(v) ==
    v.type = "list" /\ \A k \in 1..Len(v.val) : IsSupportedName(v.val[k])

LossOnly ==
    MetricsCollection(<<LossMetric(config_train[1].loss_func)>>,
                      <<ValueMetric(s_Loss)>>)

\* the classes of the metric objects that follow the loss metric
RequestedClasses(collection) ==
    [k \in 1..(Len(collection.metrics) - 1) |-> collection.metrics[k + 1].cls]

Range(seq) == {seq[k] : k \in 1..Len(seq)}

Occurrences(seq, e) == Cardinality({k \in 1..Len(seq) : seq[k] = e})

\* C2 as stated: after construction the metrics collection is unset for
\* collect_metrics False, None and [], and for True the resolved metric
\* names are exactly acc, bal_acc and f1.
C2_Original ==
    state = "constructed" =>
        /\ collect_metrics_arg \in {PyBool(FALSE), PyNone, PyList(<<>>)}
              => metrics = None
        /\ collect_metrics_arg = PyBool(TRUE)
              => /\ metrics # None
                 /\ Range(RequestedClasses(metrics[1]))
                      = {"Accuracy", "Balanced_Accuracy", "F1Score"}

\* C2 amended: after construction the metrics collection is unset exactly
\* when collect_metrics is False; for None and [] it is a collection of the
\* loss metric and the "Loss" value tracker alone; for True the metrics
\* after the loss metric are those of acc, bal_acc and f1, in that order.
C2_Amended ==
    state = "constructed" =>
        /\ metrics = None <=> collect_metrics_arg = PyBool(FALSE)
        /\ collect_metrics_arg \in {PyNone, PyList(<<>>)}
              => metrics = Some(LossOnly)
        /\ collect_metrics_arg = PyBool(TRUE)
              => /\ metrics # None
                 /\ RequestedClasses(metrics[1])
                      = <<"Accuracy", "Balanced_Accuracy", "F1Score">>
                 /\ metrics[1].metrics[1] = LossMetric(config_train[1].loss_func)
                 /\ metrics[1].value_metrics = <<ValueMetric(s_Loss)>>

C2_Witness ==
    /\ state = "constructed"
    /\ collect_metrics_arg = PyNone
    /\ metrics = Some(LossOnly)

\* C4: construction raises ValueError, and yields no instance, for every
\* collect_metrics that is not None, not a boolean, not a supported name and
\* not a list of supported names.
C4_Claim ==
    (/\ state # "new"
     /\ collect_metrics_arg # PyNone
     /\ collect_metrics_arg.type # "bool"
     /\ ~ IsSupportedName(collect_metrics_arg)
     /\ ~ IsListOfSupportedNames(collect_metrics_arg))
    => (state = "failed" /\ init_exc = "ValueError")

\* C5: for a supported name or a list of supported names, in any letter
\* case, construction succeeds and the metrics collection holds the loss
\* metric of the configured loss function, one metric per requested name in
\* the requested order, and the one value tracker "Loss".
C5_Theorem ==
    (/\ state # "new"
     /\ \/ IsSupportedName(collect_metrics_arg)
        \/ IsListOfSupportedNames(collect_metrics_arg))
    => LET requested ==
               IF collect_metrics_arg.type = "str" THEN <<collect_metrics_arg.val>>
               ELSE [k \in 1..Len(collect_metrics_arg.val) |->
                        collect_metrics_arg.val[k].val]
       IN /\ state = "constructed"
          /\ init_exc = ""
          /\ metrics # None
          /\ Len(metrics[1].metrics) = 1 + Len(requested)
          /\ metrics[1].metrics[1] = LossMetric(config_train[1].loss_func)
          /\ \A k \in 1..Len(requested) :
                metrics[1].metrics[k + 1] = Metric(ExpectedClass(requested[k]), <<>>)
          /\ metrics[1].value_metrics = <<ValueMetric(s_Loss)>>

C5_Witness ==
    /\ state = "constructed"
    /\ collect_metrics_arg = PyList(<<PyStr(s_F1), PyStr(s_ACC)>>)
    /\ RequestedClasses(metrics[1]) = <<"F1Score", "Accuracy">>

\* C3: fit raises NotImplementedError exactly when the lower-cased name of
\* the configured loss function is neither "bce" nor "bceloss", and a fit
\* that raises has not called the forecaster's fit, whatever the lags.
C3_Theorem ==
    call.op = "fit" =>
        /\ call.exc = "NotImplementedError"
              <=> lower(config_train[1].loss_func_name) \notin {s_bce, s_bceloss}
        /\ call.exc \in {"", "NotImplementedError"}
        /\ call.exc # ""
              => /\ call.super_fit = <<>>
                 /\ Occurrences(call.log, "super().fit") = 0
                 /\ call.result = None

C3_Witness ==
    /\ call.op = "fit"
    /\ call.exc = "NotImplementedError"
    /\ call.super_fit = <<>>
    /\ n_lags > 0
    /\ config_covar # None

\* C6: with a binary cross-entropy loss fit does not fail; it logs the
\* auto-regression warning exactly when n_lags > 0 and the lagged-regressor
\* warning exactly when n_lags and every covariate lag are 0, never both;
\* it then calls the forecaster's fit once, with the arguments it was given,
\* and returns what that call returned.
C6_Theorem ==
    (/\ call.op = "fit"
     /\ config_train[1].loss_func_name \in {s_bce, s_BCE, s_bceloss, s_BCELoss}) =>
        LET warn_ar == Occurrences(call.log, "warning: auto-regression")
            warn_lr == Occurrences(call.log, "warning: lagged regressor")
            no_lags == /\ n_lags = 0
                       /\ config_covar # None =>
                            \A r \in DOMAIN config_covar[1] : config_covar[1][r] = 0
        IN /\ call.exc = ""
           /\ warn_ar = (IF n_lags > 0 THEN 1 ELSE 0)
           /\ warn_lr = (IF no_lags THEN 1 ELSE 0)
           /\ warn_ar + warn_lr <= 1
           /\ Len(call.super_fit) = 1
           /\ call.super_fit[1].args = call.args
           /\ call.result = Some(call.super_fit[1].returned)
           /\ Occurrences(call.log, "super().fit") = 1
           /\ call.log[Len(call.log)] = "super().fit"

C6_Witness ==
    /\ call.op = "fit"
    /\ call.exc = ""
    /\ n_lags = 0
    /\ config_covar # None
    /\ DOMAIN config_covar[1] = CovarNames
    /\ \A r \in CovarNames : config_covar[1][r] = 0
    /\ Occurrences(call.log, "warning: lagged regressor") = 1
    /\ Len(call.super_fit) = 1

\* C9: once the instance is constructed, no call of fit, raising or not, and
\* no call of predict changes the classification flag, the configured loss
\* function or the metrics collection, and a predict that follows a predict
\* on the same forecast returns the same frame.
C9_Theorem ==
    [][state = "constructed" =>
          /\ state' = "constructed"
          /\ classification_task = Some(TRUE)
          /\ classification_task' = Some(TRUE)
          /\ config_train' = config_train
          /\ metrics' = metrics
          /\ name' = name
          /\ forecaster_locals' = forecaster_locals
          /\ (call.op = "predict" /\ call'.op = "predict")
               => call'.result = call.result]_vars

C9_Witness ==
    /\ call.op = "fit"
    /\ call.exc = "NotImplementedError"
    /\ state = "constructed"
    /\ classification_task = Some(TRUE)
    /\ metrics = Some(LossOnly)

(***************************************************************************)
(* Properties of predict.  A row of the result is traced back to the row   *)
(* of the forecast it comes from by its ds.                                *)
(***************************************************************************)
result_rows == call.result.rows
SourceRow(r) == forecast.rows[r[col_ds][1]]

Rank(id) == CHOOSE j \in 1..Len(IDS) : IDS[j] = id

\* the position at which the forecast's row k first appears in the result
FirstIndex(k) ==
    CHOOSE j \in 1..Len(result_rows) :
        /\ result_rows[j][col_ds] = Cell(k)
        /\ \A h \in 1..(j - 1) : result_rows[h][col_ds] # Cell(k)

\* rows of one series first appear in the order they have in the forecast
RelativeOrderKept ==
    \A a, b \in 1..Len(forecast.rows) :
        (a < b /\ forecast.rows[a][col_ID] = forecast.rows[b][col_ID])
            => FirstIndex(a) < FirstIndex(b)

\* C1: every row of the frame predict returns carries, for each horizon
\* step i, yhat_raw<i> with the forecaster's forecast, yhat<i> with that
\* value rounded, residual<i> = yhat_raw<i> - y, and the ID of its series.
C1_Claim ==
    call.op = "predict" =>
        \A j \in 1..Len(result_rows) :
            LET r == result_rows[j] IN
            /\ col_ID \in call.result.columns
            /\ r[col_ID] = SourceRow(r)[col_ID]
            /\ \A i \in 1..n_forecasts :
                  /\ {col_yhat_raw(i), col_yhat(i), col_residual(i)}
                        \subseteq call.result.columns
                  /\ r[col_yhat_raw(i)] = SourceRow(r)[col_yhat(i)]
                  /\ r[col_yhat(i)] = round(SourceRow(r)[col_yhat(i)])
                  /\ r[col_residual(i)] = minus(r[col_yhat_raw(i)], r[col_y])

\* C10: the frame predict builds contains each row of the forecaster's
\* output exactly once, whatever n_forecasts is.
C10_Claim ==
    call.op = "predict" =>
        \A k \in 1..Len(forecast.rows) :
            Cardinality({j \in 1..Len(result_rows) :
                            result_rows[j][col_ds] = Cell(k)}) = 1

\* C7 as stated: the series appear in the result in the order in which
\* their identifiers first appear in the forecaster's output, and the rows
\* of each series keep their relative order.
C7_Original ==
    call.op = "predict" =>
        /\ FirstSeen(IdsOf(result_rows)) = FirstSeen(IdsOf(forecast.rows))
        /\ RelativeOrderKept

\* C7 amended: the series appear in the result in ascending order of their
\* identifiers, whatever their order in the forecaster's output, the rows
\* of a series are contiguous, and the rows of each series first appear in
\* their original relative order.
C7_Amended ==
    call.op = "predict" =>
        /\ Range(IdsOf(result_rows)) = Range(IdsOf(forecast.rows))
        /\ \A j, h \in 1..Len(result_rows) :
              j < h => Rank(result_rows[j][col_ID][1]) <= Rank(result_rows[h][col_ID][1])
        /\ RelativeOrderKept

C7_Witness ==
    /\ call.op = "predict"
    /\ IdsOf(forecast.rows) = <<IDS[2], IDS[1]>>
    /\ FirstSeen(IdsOf(result_rows)) = <<IDS[1], IDS[2]>>

\* the rows and steps for which predict has written the rounded forecast
Written(r, i) ==
    /\ col_residual(i) \in call.result.columns
    /\ r[col_residual(i)] # NaN

Abs(x) == IF x < 0 THEN -x ELSE x

\* C8: the rounded forecast predict writes is the raw forecast rounded to
\* the nearest integer, ties to the even integer (0.5 gives 0, 1.5 gives 2);
\* it is 0 or 1 for a raw forecast in [0, 1] and is not clamped otherwise.
C8_Theorem ==
    call.op = "predict" =>
        \A j \in 1..Len(result_rows), i \in 1..n_forecasts :
            LET r == result_rows[j] IN
            Written(r, i) =>
                LET raw == r[col_yhat_raw(i)][1]
                    yhat == r[col_yhat(i)][1]
                IN /\ raw = SourceRow(r)[col_yhat(i)][1]
                   /\ yhat % Scale = 0
                   /\ 2 * Abs(yhat - raw) <= Scale
                   /\ 2 * Abs(yhat - raw) = Scale => (yhat \div Scale) % 2 = 0
                   /\ (0 <= raw /\ raw <= Scale) => yhat \in {0, Scale}
                   /\ raw = HalfUnit => yhat = 0
                   /\ raw = 3 * HalfUnit => yhat = 2 * Scale

C8_Witness ==
    /\ call.op = "predict"
    /\ \E j \in 1..Len(result_rows), i \in 1..n_forecasts :
          /\ Written(result_rows[j], i)
          /\ result_rows[j][col_yhat_raw(i)] = Cell(HalfUnit)
          /\ result_rows[j][col_yhat(i)] = Cell(0)
    /\ \E j \in 1..Len(result_rows), i \in 1..n_forecasts :
          /\ Written(result_rows[j], i)
          /\ result_rows[j][col_yhat(i)] \notin {Cell(0), Cell(Scale)}
====
